---- MODULE Spec2Model ----
(***************************************************************************)
(* A model of the perfect-clear solver: the bit-packed board, the piece    *)
(* geometry, the SRS kick table, the game reducer (Move / Hold / Place),   *)
(* the search-state reducer, the placement enumerator and the perfect      *)
(* clear search.                                                           *)
(*                                                                         *)
(* A board (a u64 bitfield) is modelled as the set of its set bit indices. *)
(* A point is a pair <<x, y>>.  An absent piece or kind is the value None. *)
(***************************************************************************)
EXTENDS Integers, Sequences, FiniteSets, TLC

VARIABLES
    game,             \* the current Game
    config,           \* Config: [soft_drop_allowed]
    moves_remaining,  \* State.moves_remaining
    last,             \* reducer run: the last action and what it returned
    pc,               \* control position of the modelled run
    memo,             \* enumerator: key -> [is_placable, previous_key]
    stack,            \* enumerator: recursion stack of frames [key, i]
    expanded,         \* enumerator: key -> number of calls made on that key
    in_progress,      \* search: the path of states of the current branch
    results,          \* search: perfect_clear_results; enumerator: the returned keys
    moved,            \* search: the active piece's key is a key of the enumerator's memo
    steps             \* reducer run: the number of reducer calls made

vars == <<game, config, moves_remaining, last, pc, memo, stack, expanded, in_progress,
          results, moved, steps>>

None == "None"

------------------------------------------------------------------------------
(* utils/point.rs, utils/direction.rs, rotation.rs *)

PointAdd(p, q) == <<p[1] + q[1], p[2] + q[2]>>

get_offset(direction) ==
    CASE direction = "Down" -> <<0, -1>>
      [] direction = "Left" -> <<-1, 0>>
      [] direction = "Right" -> <<1, 0>>

Orientations == {"North", "South", "East", "West"}

Rotations == {"Clockwise", "AntiClockwise", "Half"}

rotated(orientation, by) ==
    CASE orientation = "North" ->
            (CASE by = "Clockwise" -> "East"
               [] by = "AntiClockwise" -> "West"
               [] by = "Half" -> "South")
      [] orientation = "South" ->
            (CASE by = "Clockwise" -> "West"
               [] by = "AntiClockwise" -> "East"
               [] by = "Half" -> "North")
      [] orientation = "East" ->
            (CASE by = "Clockwise" -> "South"
               [] by = "AntiClockwise" -> "North"
               [] by = "Half" -> "West")
      [] orientation = "West" ->
            (CASE by = "Clockwise" -> "North"
               [] by = "AntiClockwise" -> "South"
               [] by = "Half" -> "East")

------------------------------------------------------------------------------
(* board.rs *)

BoardWidth == 10

BoardHeight == 6

CellIndex(x, y) == x + y * BoardWidth

empty_board == {}

filled_board == 0 .. (BoardWidth * BoardHeight - 1)

ONE_PC_FILL == 0 .. 9

TWO_PC_FILL == 0 .. 19

THREE_PC_FILL == 0 .. 29

FOUR_PC_FILL == 0 .. 39

PC_FILLS == <<ONE_PC_FILL, TWO_PC_FILL, THREE_PC_FILL, FOUR_PC_FILL>>

(* A variant of is_filled: the window height is tested before the walls. *)
is_filled_height_first(board, at) ==
    IF at[2] >= BoardHeight
    THEN FALSE
    ELSE IF at[1] < 0 \/ at[1] >= BoardWidth \/ at[2] < 0
         THEN TRUE
         ELSE CellIndex(at[1], at[2]) \in board

is_filled(board, at) ==
    IF at[1] < 0 \/ at[1] >= BoardWidth \/ at[2] < 0
    THEN TRUE
    ELSE IF at[2] >= BoardHeight
         THEN FALSE
         ELSE CellIndex(at[1], at[2]) \in board

fill(board, point) ==
    IF point[1] < 0 \/ point[1] >= BoardWidth \/ point[2] < 0 \/ point[2] >= BoardHeight
    THEN board
    ELSE board \cup {CellIndex(point[1], point[2])}

(* A variant of empty: the cell keeps its state. *)
empty_keeps_cell(board, point) == board

empty(board, point) ==
    IF point[1] < 0 \/ point[1] >= BoardWidth \/ point[2] < 0 \/ point[2] >= BoardHeight
    THEN board
    ELSE board \ {CellIndex(point[1], point[2])}

can_fit(board, piece_points) ==
    \A i \in 1 .. 4 : ~is_filled(board, piece_points[i])

can_place(board, piece_points) ==
    \E i \in 1 .. 4 : is_filled(board, PointAdd(piece_points[i], <<0, -1>>))

RECURSIVE FillPoints(_, _, _)
FillPoints(board, piece_points, i) ==
    IF i > 4 THEN board
    ELSE FillPoints(fill(board, piece_points[i]), piece_points, i + 1)

fill_piece_points(board, piece_points) == FillPoints(board, piece_points, 1)

is_line_filled(board, y) ==
    \A x \in 0 .. (BoardWidth - 1) : is_filled(board, <<x, y>>)

is_line_empty(board, y) ==
    \A x \in 0 .. (BoardWidth - 1) : ~is_filled(board, <<x, y>>)

(* Variants of can_perfect_clear. *)
can_perfect_clear_bottom_row(board) == \A x \in 0 .. (BoardWidth - 1) : CellIndex(x, 0) \in board

can_perfect_clear_or_empty(board) ==
    board = empty_board \/ \E i \in 1 .. 4 : board = PC_FILLS[i]

can_perfect_clear_any_height(board) ==
    \E n \in 1 .. BoardHeight : board = 0 .. (n * BoardWidth - 1)

can_perfect_clear(board) ==
    \E i \in 1 .. 4 : board = PC_FILLS[i]

(* One row of the loop of clear_filled_lines: the cells of row y copied to *)
(* row next_y of next_board.                                               *)
CopyLine(board, next_board, y, next_y) ==
    next_board \cup
        {CellIndex(x, next_y) : x \in {x \in 0 .. (BoardWidth - 1) :
              is_filled(board, <<x, y>>) /\ next_y >= 0 /\ next_y < BoardHeight}}

RECURSIVE ClearLoop(_, _, _, _)
ClearLoop(board, next_board, y, next_y) ==
    IF y >= BoardHeight THEN next_board
    ELSE IF is_line_filled(board, y)
         THEN ClearLoop(board, next_board, y + 1, next_y)
         ELSE ClearLoop(board, CopyLine(board, next_board, y, next_y), y + 1, next_y + 1)

(* A variant of clear_filled_lines: the filled lines are emptied, nothing   *)
(* moves.                                                                  *)
clear_filled_lines_in_place(board) ==
    {i \in board : ~is_line_filled(board, i \div BoardWidth)}

(* A variant of clear_filled_lines: rows 4 and 5 stay where they are. *)
clear_filled_lines_below_row_4(board) ==
    ClearLoop(board \ (4 * BoardWidth .. 6 * BoardWidth - 1), empty_board, 0, 0)
        \cup (board \cap (4 * BoardWidth .. 6 * BoardWidth - 1))

(* A variant of clear_filled_lines: no line is removed. *)
clear_filled_lines_none(board) == board

clear_filled_lines(board) == ClearLoop(board, empty_board, 0, 0)

------------------------------------------------------------------------------
(* piece.rs *)

PIECE_KINDS == <<"I", "J", "L", "O", "S", "T", "Z">>

PieceKinds == {PIECE_KINDS[i] : i \in 1 .. 7}

get_spawn_point(kind) ==
    IF kind = "I" THEN <<3, 18>> ELSE <<3, 19>>

get_position_offsets(kind) ==
    CASE kind = "I" -> << <<0, 2>>, <<1, 2>>, <<2, 2>>, <<3, 2>> >>
      [] kind = "J" -> << <<0, 2>>, <<0, 1>>, <<1, 1>>, <<2, 1>> >>
      [] kind = "L" -> << <<2, 2>>, <<0, 1>>, <<1, 1>>, <<2, 1>> >>
      [] kind = "O" -> << <<1, 2>>, <<2, 2>>, <<1, 1>>, <<2, 1>> >>
      [] kind = "S" -> << <<1, 2>>, <<2, 2>>, <<0, 1>>, <<1, 1>> >>
      [] kind = "T" -> << <<1, 2>>, <<0, 1>>, <<1, 1>>, <<2, 1>> >>
      [] kind = "Z" -> << <<0, 2>>, <<1, 2>>, <<1, 1>>, <<2, 1>> >>

get_bounding_box_size(kind) ==
    IF kind \in {"I", "O"} THEN 4 ELSE 3

(* A variant of orient_offset: the East and West transforms exchanged. *)
orient_offset_east_west_exchanged(offset, size_minus_one, orientation) ==
    CASE orientation = "North" -> offset
      [] orientation = "South" -> <<size_minus_one - offset[1], size_minus_one - offset[2]>>
      [] orientation = "West" -> <<offset[2], size_minus_one - offset[1]>>
      [] orientation = "East" -> <<size_minus_one - offset[2], offset[1]>>

orient_offset(offset, size_minus_one, orientation) ==
    CASE orientation = "North" -> offset
      [] orientation = "South" -> <<size_minus_one - offset[1], size_minus_one - offset[2]>>
      [] orientation = "East" -> <<offset[2], size_minus_one - offset[1]>>
      [] orientation = "West" -> <<size_minus_one - offset[2], offset[1]>>

orient_offset_box(kind, orientation) ==
    [i \in 1 .. 4 |->
        orient_offset(get_position_offsets(kind)[i], get_bounding_box_size(kind) - 1, orientation)]

(* The oriented offsets of every kind, tabulated once. *)
OrientedOffsets ==
    [kind \in PieceKinds |-> [o \in Orientations |-> orient_offset_box(kind, o)]]

NoPiece == [kind |-> None, position |-> <<0, 0>>, orientation |-> "North"]

spawn(kind) ==
    [kind |-> kind, position |-> get_spawn_point(kind), orientation |-> "North"]

get_points(piece) ==
    [i \in 1 .. 4 |-> PointAdd(OrientedOffsets[piece.kind][piece.orientation][i], piece.position)]

------------------------------------------------------------------------------
(* config.rs *)

(* A variant of kick_table: one table of two transitions for every kind. *)
kick_table_o_kicks(piece_kind, from, to) ==
    CASE from = "North" /\ to = "East" -> <<<<-1, 0>>, <<-1, 1>>, <<0, -2>>, <<-1, -2>>>>
      [] from = "East" /\ to = "North" -> <<<<1, 0>>, <<1, -1>>, <<0, 2>>, <<1, 2>>>>
      [] OTHER -> <<>>

kick_table(piece_kind, from, to) ==
    IF piece_kind = "O" THEN <<>>
    ELSE IF piece_kind = "I" THEN
        CASE from = "North" /\ to = "East" -> << <<-2, 0>>, <<1, 0>>, <<-2, -1>>, <<1, 2>> >>
          [] from = "East" /\ to = "North" -> << <<2, 0>>, <<-1, 0>>, <<2, 1>>, <<-1, -2>> >>
          [] from = "East" /\ to = "South" -> << <<-1, 0>>, <<2, 0>>, <<-1, 2>>, <<2, -1>> >>
          [] from = "South" /\ to = "East" -> << <<1, 0>>, <<-2, 0>>, <<1, -2>>, <<-2, 1>> >>
          [] from = "South" /\ to = "West" -> << <<2, 0>>, <<-1, 0>>, <<2, 1>>, <<-1, -2>> >>
          [] from = "West" /\ to = "South" -> << <<-2, 0>>, <<1, 0>>, <<-2, -1>>, <<1, 2>> >>
          [] from = "West" /\ to = "North" -> << <<1, 0>>, <<-2, 0>>, <<1, -2>>, <<-2, 1>> >>
          [] from = "North" /\ to = "West" -> << <<-1, 0>>, <<2, 0>>, <<-1, 2>>, <<2, -1>> >>
          [] OTHER -> <<>>
    ELSE
        CASE from = "North" /\ to = "East" -> << <<-1, 0>>, <<-1, 1>>, <<0, -2>>, <<-1, -2>> >>
          [] from = "East" /\ to = "North" -> << <<1, 0>>, <<1, -1>>, <<0, 2>>, <<1, 2>> >>
          [] from = "East" /\ to = "South" -> << <<1, 0>>, <<1, -1>>, <<0, 2>>, <<1, 2>> >>
          [] from = "South" /\ to = "East" -> << <<-1, 0>>, <<-1, 1>>, <<0, -2>>, <<-1, -2>> >>
          [] from = "South" /\ to = "West" -> << <<1, 0>>, <<1, 1>>, <<0, -2>>, <<1, -2>> >>
          [] from = "West" /\ to = "South" -> << <<-1, 0>>, <<-1, -1>>, <<0, 2>>, <<-1, 2>> >>
          [] from = "West" /\ to = "North" -> << <<-1, 0>>, <<-1, -1>>, <<0, 2>>, <<-1, 2>> >>
          [] from = "North" /\ to = "West" -> << <<1, 0>>, <<1, 1>>, <<0, -2>>, <<1, -2>> >>
          [] OTHER -> <<>>

(* A Move is <<"Rotate", rotation>>, <<"Translate", direction>> or <<"Drop">>. *)
possible_moves(cfg) ==
    << <<"Rotate", "Clockwise">>, <<"Rotate", "AntiClockwise">>, <<"Drop">>,
       <<"Translate", "Left">>, <<"Translate", "Right">> >>
    \o (IF cfg.soft_drop_allowed THEN << <<"Translate", "Down">> >> ELSE <<>>)

default_config == [soft_drop_allowed |-> FALSE]

------------------------------------------------------------------------------
(* game.rs: the reducer.  A result is [ok, err, game]; on an error the     *)
(* game is the unchanged input.                                            *)

EmptyQueue == [i \in 1 .. 7 |-> None]

initial_game ==
    [board |-> empty_board, piece |-> NoPiece, hold_kind |-> None,
     is_hold_used |-> FALSE, queue |-> EmptyQueue]

Ok(g) == [ok |-> TRUE, err |-> "Ok", game |-> g]

Err(e, g) == [ok |-> FALSE, err |-> e, game |-> g]

ShiftPoints(points, by) == [i \in 1 .. 4 |-> PointAdd(points[i], by)]

(* A variant of FirstKick: the last kick whose kicked points fit. *)
RECURSIVE LastKick(_, _, _, _)
LastKick(board, piece_points, kicks, i) ==
    IF i > Len(kicks) THEN 0
    ELSE LET later == LastKick(board, piece_points, kicks, i + 1)
         IN  IF later # 0 THEN later
             ELSE IF can_fit(board, ShiftPoints(piece_points, kicks[i])) THEN i
             ELSE 0

(* The first kick of kicks[i..] whose kicked points fit, 0 when none does. *)
RECURSIVE FirstKick(_, _, _, _)
FirstKick(board, piece_points, kicks, i) ==
    IF i > Len(kicks) THEN 0
    ELSE IF can_fit(board, ShiftPoints(piece_points, kicks[i])) THEN i
         ELSE FirstKick(board, piece_points, kicks, i + 1)

(* A variant of with_rotated_piece: no kick is tried. *)
with_rotated_piece_without_kicks(g, rotation) ==
    IF g.piece.kind = None THEN Err("NoPiece", g)
    ELSE
        LET rotated_piece == [g.piece EXCEPT
                                 !.orientation = rotated(g.piece.orientation, rotation)]
        IN  IF can_fit(g.board, get_points(rotated_piece))
            THEN Ok([g EXCEPT !.piece = rotated_piece])
            ELSE Err("InvalidMove", g)

with_rotated_piece(g, rotation) ==
    IF g.piece.kind = None THEN Err("NoPiece", g)
    ELSE
        LET piece == g.piece
            from_orientation == piece.orientation
            to_orientation == rotated(from_orientation, rotation)
            rotated_piece == [piece EXCEPT !.orientation = to_orientation]
            piece_points == get_points(rotated_piece)
        IN  IF can_fit(g.board, piece_points)
            THEN Ok([g EXCEPT !.piece = rotated_piece])
            ELSE
                LET kicks == kick_table(piece.kind, from_orientation, to_orientation)
                    k == FirstKick(g.board, piece_points, kicks, 1)
                IN  IF k = 0 THEN Err("InvalidMove", g)
                    ELSE Ok([g EXCEPT !.piece =
                            [rotated_piece EXCEPT
                                !.position = PointAdd(rotated_piece.position, kicks[k])]])

(* A variant of with_translated_piece: the shifted piece is not tested. *)
with_translated_piece_unchecked(g, direction) ==
    IF g.piece.kind = None THEN Err("NoPiece", g)
    ELSE Ok([g EXCEPT !.piece.position = PointAdd(g.piece.position, get_offset(direction))])

with_translated_piece(g, direction) ==
    IF g.piece.kind = None THEN Err("NoPiece", g)
    ELSE
        LET next_piece == [g.piece EXCEPT
                              !.position = PointAdd(g.piece.position, get_offset(direction))]
        IN  IF ~can_fit(g.board, get_points(next_piece))
            THEN Err("InvalidMove", g)
            ELSE Ok([g EXCEPT !.piece = next_piece])

(* The while loop of with_dropped_piece: lower the piece while it fits. *)
RECURSIVE DropLoop(_, _)
DropLoop(board, dropped_piece) ==
    IF can_fit(board, get_points(dropped_piece))
    THEN DropLoop(board, [dropped_piece EXCEPT !.position[2] = @ - 1])
    ELSE dropped_piece

(* A variant of with_dropped_piece: the piece stays where the loop left it. *)
with_dropped_piece_no_step_back(g) ==
    IF g.piece.kind = None THEN Err("NoPiece", g)
    ELSE
        LET dropped_piece == DropLoop(g.board, g.piece)
        IN  IF dropped_piece.position[2] = g.piece.position[2]
            THEN Err("InvalidMove", g)
            ELSE Ok([g EXCEPT !.piece = dropped_piece])

with_dropped_piece(g) ==
    IF g.piece.kind = None THEN Err("NoPiece", g)
    ELSE
        LET lowered == DropLoop(g.board, g.piece)
            dropped_piece == [lowered EXCEPT !.position[2] = @ + 1]
        IN  IF dropped_piece.position[2] = g.piece.position[2]
            THEN Err("InvalidMove", g)
            ELSE Ok([g EXCEPT !.piece = dropped_piece])

with_moved_piece(g, mov) ==
    CASE mov[1] = "Rotate" -> with_rotated_piece(g, mov[2])
      [] mov[1] = "Translate" -> with_translated_piece(g, mov[2])
      [] mov[1] = "Drop" -> with_dropped_piece(g)

(* A variant of with_hold_used: a hold without switch is always available. *)
with_hold_used_free_without_switch(g, switch) ==
    IF ~switch THEN Ok([g EXCEPT !.is_hold_used = TRUE])
    ELSE IF g.is_hold_used THEN Err("NotAvailable", g)
    ELSE IF g.hold_kind = None THEN Err("NoHoldPiece", g)
    ELSE
        LET next_piece == spawn(g.hold_kind)
        IN  IF ~can_fit(g.board, get_points(next_piece)) THEN Err("PieceCollision", g)
            ELSE IF g.piece.kind = None THEN Err("NoPiece", g)
            ELSE Ok([g EXCEPT !.is_hold_used = TRUE,
                              !.piece = next_piece,
                              !.hold_kind = g.piece.kind])

(* A variant of with_hold_used: the held kind takes the place of the piece. *)
with_hold_used_in_place(g, switch) ==
    IF g.is_hold_used THEN Err("NotAvailable", g)
    ELSE IF ~switch THEN Ok([g EXCEPT !.is_hold_used = TRUE])
    ELSE IF g.hold_kind = None THEN Err("NoHoldPiece", g)
    ELSE
        LET next_piece == spawn(g.hold_kind)
        IN  IF ~can_fit(g.board, get_points(next_piece)) THEN Err("PieceCollision", g)
            ELSE IF g.piece.kind = None THEN Err("NoPiece", g)
            ELSE Ok([g EXCEPT !.is_hold_used = TRUE,
                              !.piece = [g.piece EXCEPT !.kind = g.hold_kind],
                              !.hold_kind = g.piece.kind])

(* A variant of with_hold_used: a switch with nothing held stores the piece. *)
with_hold_used_stores_piece(g, switch) ==
    IF g.is_hold_used THEN Err("NotAvailable", g)
    ELSE IF ~switch THEN Ok([g EXCEPT !.is_hold_used = TRUE])
    ELSE IF g.hold_kind = None
    THEN IF g.piece.kind = None THEN Err("NoPiece", g)
         ELSE Ok([g EXCEPT !.is_hold_used = TRUE,
                           !.piece = NoPiece,
                           !.hold_kind = g.piece.kind])
    ELSE
        LET next_piece == spawn(g.hold_kind)
        IN  IF ~can_fit(g.board, get_points(next_piece)) THEN Err("PieceCollision", g)
            ELSE IF g.piece.kind = None THEN Err("NoPiece", g)
            ELSE Ok([g EXCEPT !.is_hold_used = TRUE,
                              !.piece = next_piece,
                              !.hold_kind = g.piece.kind])

with_hold_used(g, switch) ==
    IF g.is_hold_used THEN Err("NotAvailable", g)
    ELSE IF ~switch THEN Ok([g EXCEPT !.is_hold_used = TRUE])
    ELSE IF g.hold_kind = None THEN Err("NoHoldPiece", g)
    ELSE
        LET next_piece == spawn(g.hold_kind)
        IN  IF ~can_fit(g.board, get_points(next_piece)) THEN Err("PieceCollision", g)
            ELSE IF g.piece.kind = None THEN Err("NoPiece", g)
            ELSE Ok([g EXCEPT !.is_hold_used = TRUE,
                              !.piece = next_piece,
                              !.hold_kind = g.piece.kind])

with_placed_piece(g) ==
    IF g.piece.kind = None THEN Err("NoPiece", g)
    ELSE
        LET piece_points == get_points(g.piece)
        IN  IF ~can_place(g.board, piece_points) THEN Err("PieceInAir", g)
            ELSE
                LET filled == fill_piece_points(g.board, piece_points)
                    next_board == IF ~can_perfect_clear(filled)
                                  THEN clear_filled_lines(filled)
                                  ELSE filled
                IN  Ok([g EXCEPT !.board = next_board,
                                 !.piece = NoPiece,
                                 !.is_hold_used = FALSE])

(* Game::reduce: an action is <<"Move", mov>>, <<"Hold", switch>> or <<"Place">>. *)
reduce(g, action) ==
    CASE action[1] = "Move" -> with_moved_piece(g, action[2])
      [] action[1] = "Hold" -> with_hold_used(g, action[2])
      [] action[1] = "Place" -> with_placed_piece(g)

------------------------------------------------------------------------------
(* A key is <<position, orientation>> (PlaceablePiecesKey); MemoKeys is    *)
(* the closure of a set of keys under the possible moves the reducer       *)
(* accepts.                                                                *)

KeyOf(piece) == <<piece.position, piece.orientation>>

WithKey(g, key) ==
    [g EXCEPT !.piece = [kind |-> g.piece.kind, position |-> key[1], orientation |-> key[2]]]

(* The keys of the games that one successful move of possible_moves leads  *)
(* to from game g (the filter_map of generate_placable_pieces).            *)
MoveKeys(g, cfg) ==
    {KeyOf(with_moved_piece(g, possible_moves(cfg)[i]).game.piece) :
        i \in {j \in 1 .. Len(possible_moves(cfg)) :
                  with_moved_piece(g, possible_moves(cfg)[j]).ok}}

(* The key set of the memo when generate_placable_pieces returns: every    *)
(* key that is inserted is expanded in turn, so the memo holds the keys    *)
(* that one or more successful moves lead to.                              *)
RECURSIVE MemoKeys(_, _, _, _)
MemoKeys(g, cfg, frontier, seen) ==
    IF frontier = {} THEN seen
    ELSE
        LET next == UNION {MoveKeys(WithKey(g, k), cfg) : k \in frontier} \ seen
        IN  MemoKeys(g, cfg, next, seen \cup next)

------------------------------------------------------------------------------
(* state.rs: the search-state reducer.  A State is [game, moves_remaining] *)
(* (the probability fields are not modelled).  A result is [ok, err, state]. *)

MkState(g, n) == [game |-> g, moves_remaining |-> n]

SOk(st) == [ok |-> TRUE, err |-> "Ok", state |-> st]

SErr(e, st) == [ok |-> FALSE, err |-> e, state |-> st]

(* A variant of with_consumed_queue: the queue is left as it is. *)
with_consumed_queue_no_shift(st) ==
    IF st.game.queue[1] = None THEN SErr("QueueEmpty", st)
    ELSE
        LET next_piece == spawn(st.game.queue[1])
        IN  IF ~can_fit(st.game.board, get_points(next_piece)) THEN SErr("GameOver", st)
            ELSE SOk([st EXCEPT !.game.piece = next_piece,
                                !.game.is_hold_used = FALSE])

with_consumed_queue(st) ==
    IF st.game.queue[1] = None THEN SErr("QueueEmpty", st)
    ELSE
        LET next_piece == spawn(st.game.queue[1])
            new_queue == [i \in 1 .. 7 |-> IF i < 7 THEN st.game.queue[i + 1] ELSE None]
        IN  IF ~can_fit(st.game.board, get_points(next_piece)) THEN SErr("GameOver", st)
            ELSE SOk([st EXCEPT !.game.queue = new_queue,
                                !.game.piece = next_piece,
                                !.game.is_hold_used = FALSE])

with_guessed_next(st, kind) ==
    LET next_piece == spawn(kind)
    IN  IF ~can_fit(st.game.board, get_points(next_piece)) THEN SErr("GameOver", st)
        ELSE SOk([st EXCEPT !.game.piece = next_piece])

(* A variant of play: every successful action takes one move of the budget. *)
play_every_action_counts(st, action) ==
    LET r == reduce(st.game, action)
    IN  IF ~r.ok THEN SErr(r.err, st)
        ELSE SOk([game |-> r.game, moves_remaining |-> st.moves_remaining - 1])

(* Action::Play(action): the game reducer applied to the state's game; a   *)
(* Place takes one move of the budget.                                     *)
play(st, action) ==
    LET r == reduce(st.game, action)
    IN  IF ~r.ok THEN SErr(r.err, st)
        ELSE SOk([game |-> r.game,
                  moves_remaining |-> IF action[1] = "Place"
                                      THEN st.moves_remaining - 1
                                      ELSE st.moves_remaining])

(* State::reduce: an action is <<"ConsumeQueue">>, <<"GuessNext", kind>> or *)
(* <<"Play", game action>>.                                                 *)
state_reduce(st, action) ==
    CASE action[1] = "ConsumeQueue" -> with_consumed_queue(st)
      [] action[1] = "GuessNext" -> with_guessed_next(st, action[2])
      [] action[1] = "Play" -> play(st, action[2])

initial_state == MkState(initial_game, 10)

------------------------------------------------------------------------------
(* Inputs.  A point set given as cells <<x, y>> becomes a board. *)

BoardOf(cells) == {CellIndex(c[1], c[2]) : c \in cells}

Row(y) == {CellIndex(x, y) : x \in 0 .. (BoardWidth - 1)}

PieceAt(kind, x, y, orientation) ==
    [kind |-> kind, position |-> <<x, y>>, orientation |-> orientation]

QueueOf(kinds) == [i \in 1 .. 7 |-> IF i <= Len(kinds) THEN kinds[i] ELSE None]

MkGame(board, piece, hold_kind, is_hold_used, kinds) ==
    [board |-> board, piece |-> piece, hold_kind |-> hold_kind,
     is_hold_used |-> is_hold_used, queue |-> QueueOf(kinds)]

(* The bottom row but for the four cells of a flat I at columns 3..6. *)
BoardIHole == Row(0) \ BoardOf({<<3, 0>>, <<4, 0>>, <<5, 0>>, <<6, 0>>})

(* The two bottom rows but for the 2x2 cells of an O at columns 4..5. *)
BoardOHole == (Row(0) \cup Row(1)) \ BoardOf({<<4, 0>>, <<5, 0>>, <<4, 1>>, <<5, 1>>})

(* A single filled cell on the floor. *)
BoardOneCell == BoardOf({<<3, 0>>})

(* The board after empty(point) for every point of cells. *)
EmptyAll(board, cells) == board \ UNION {board \ empty(board, c) : c \in cells}

(* The T-spin-triple board of the test t_spin_triple. *)
TSpinTripleBoard ==
    EmptyAll(filled_board,
             {<<x, y>> : x \in 3 .. 5, y \in 5 .. 23}
                 \cup {<<3, 0>>, <<3, 1>>, <<4, 1>>, <<3, 2>>, <<3, 3>>,
                       <<4, 3>>, <<5, 3>>, <<4, 4>>, <<5, 4>>})

(* The three bottom rows but for column 0. *)
BoardTall == (Row(0) \cup Row(1) \cup Row(2)) \ BoardOf({<<0, 0>>, <<0, 1>>, <<0, 2>>})

(* The I hole of the bottom row under one more filled cell. *)
BoardIHoleExtra == BoardIHole \cup BoardOf({<<0, 1>>})

(* The game of the test with_hold_used::invalid_if_new_piece_intersects_board: *)
(* fill on (3,20)..(6,20) of the empty board, I held, J active.               *)
HoldCollisionBoard ==
    fill(fill(fill(fill(empty_board, <<3, 20>>), <<4, 20>>), <<5, 20>>), <<6, 20>>)

HoldCollisionGame == MkGame(HoldCollisionBoard, spawn("J"), "I", FALSE, <<>>)

(* The longest reducer run explored from an input. *)
MaxSteps == 3

GameInputs ==
    {initial_game,
     MkGame(empty_board, spawn("I"), None, FALSE, <<>>),
     MkGame(empty_board, spawn("T"), "O", FALSE, <<"S", "Z">>),
     MkGame(empty_board, NoPiece, "L", FALSE, <<"J">>),
     MkGame(empty_board, PieceAt("I", 3, -2, "North"), None, FALSE, <<"O">>),
     MkGame(empty_board, PieceAt("O", 3, 1, "North"), "I", TRUE, <<>>),
     MkGame(BoardOneCell, PieceAt("I", 3, -2, "North"), None, FALSE, <<>>),
     MkGame(BoardOneCell, PieceAt("I", 0, -1, "North"), None, FALSE, <<"T">>),
     MkGame(BoardOneCell, PieceAt("T", 3, 0, "North"), "J", FALSE, <<>>),
     MkGame(BoardOneCell, PieceAt("T", 2, 1, "South"), None, FALSE, <<>>),
     MkGame(BoardIHole, PieceAt("I", 3, -2, "North"), None, FALSE, <<"I">>),
     MkGame(BoardIHole, PieceAt("I", 3, -1, "North"), "I", FALSE, <<>>),
     MkGame(BoardIHole, PieceAt("I", 2, -2, "North"), None, FALSE, <<>>),
     MkGame(BoardIHole, PieceAt("L", 3, 0, "North"), None, TRUE, <<"Z">>),
     MkGame(BoardOHole, PieceAt("O", 3, -1, "North"), None, FALSE, <<>>),
     MkGame(BoardOHole, PieceAt("O", 3, 0, "East"), "T", FALSE, <<"L">>),
     MkGame(BoardOHole, PieceAt("S", 3, 1, "North"), None, FALSE, <<>>),
     MkGame(filled_board, PieceAt("Z", 3, 5, "North"), "I", FALSE, <<"I">>),
     MkGame(filled_board, NoPiece, "O", FALSE, <<"T">>),
     MkGame(THREE_PC_FILL, PieceAt("J", 0, 2, "West"), None, FALSE, <<>>),
     MkGame(BoardIHoleExtra, PieceAt("I", 3, -2, "North"), "T", TRUE, <<"S">>),
     MkGame(BoardTall, PieceAt("I", -2, 0, "East"), "O", FALSE, <<"L", "J">>),
     MkGame(TSpinTripleBoard, PieceAt("T", 3, 2, "North"), None, FALSE, <<>>),
     MkGame(TSpinTripleBoard, PieceAt("T", 3, 4, "South"), "S", FALSE, <<"Z">>),
     MkGame(empty_board, NoPiece, None, TRUE, <<"I", "J", "L", "O", "S", "T", "Z">>),
     HoldCollisionGame}

Configs == {[soft_drop_allowed |-> b] : b \in BOOLEAN}

Idle == [action |-> <<"None">>, result |-> "None"]

(* The variables a run of one specification does not use keep these values. *)
EnumIdle == memo = <<>> /\ stack = <<>> /\ expanded = <<>>

SearchIdle == in_progress = <<>> /\ moved = FALSE

------------------------------------------------------------------------------
(* The reducer run: any action of State::reduce applied to the current      *)
(* state, up to MaxSteps calls.  last is the action and what it returned.  *)

Init ==
    /\ game \in GameInputs
    /\ config = default_config
    /\ moves_remaining = 10
    /\ last = Idle
    /\ pc = "reduce"
    /\ steps = 0
    /\ results = <<>>
    /\ EnumIdle
    /\ SearchIdle

Moves ==
    {<<"Rotate", r>> : r \in Rotations}
        \cup {<<"Translate", d>> : d \in {"Left", "Right", "Down"}}
        \cup {<<"Drop">>}

(* One call of State::reduce.  results is the history of the run: the kinds *)
(* of the pieces locked by the successful Place calls so far.               *)
Apply(action) ==
    /\ pc = "reduce"
    /\ steps < MaxSteps
    /\ LET r == state_reduce(MkState(game, moves_remaining), action)
       IN  /\ game' = r.state.game
           /\ moves_remaining' = r.state.moves_remaining
           /\ last' = [action |-> action, result |-> r.err]
           /\ results' = IF r.ok /\ action = <<"Play", <<"Place">>>>
                         THEN Append(results, game.piece.kind)
                         ELSE results
    /\ steps' = steps + 1
    /\ UNCHANGED <<config, pc, memo, stack, expanded, in_progress, moved>>

ConsumeQueue == Apply(<<"ConsumeQueue">>)

GuessNext == \E kind \in PieceKinds : Apply(<<"GuessNext", kind>>)

Move == \E mov \in Moves : Apply(<<"Play", <<"Move", mov>>>>)

Hold == \E switch \in BOOLEAN : Apply(<<"Play", <<"Hold", switch>>>>)

Place == Apply(<<"Play", <<"Place">>>>)

Next == ConsumeQueue \/ GuessNext \/ Move \/ Hold \/ Place

Spec == Init /\ [][Next]_vars

------------------------------------------------------------------------------
(* solver.rs: the placement enumerator, one step per loop iteration.       *)
(* memo maps a key to [is_placable, previous_key]; a frame of stack is a   *)
(* call of generate_placable_pieces: the key of its piece and the index of *)
(* the next possible move to try; expanded counts the calls per key.       *)

(* A T whose four cells are the only empty cells of the board. *)
EnclosedT == PieceAt("T", 3, 0, "North")

EnclosedBoard == EmptyAll(filled_board, {get_points(EnclosedT)[i] : i \in 1 .. 4})

ISpawnEmptyGame == MkGame(empty_board, spawn("I"), None, FALSE, <<>>)

TSpinTripleGame == MkGame(TSpinTripleBoard, spawn("T"), None, FALSE, <<>>)

EnclosedGame == MkGame(EnclosedBoard, EnclosedT, None, FALSE, <<>>)

EnumInputs ==
    {<<ISpawnEmptyGame, b>> : b \in BOOLEAN}
        \cup {<<TSpinTripleGame, FALSE>>,
              <<EnclosedGame, FALSE>>,
              <<initial_game, FALSE>>,
              <<MkGame(BoardOHole, spawn("O"), "I", FALSE, <<"T">>), FALSE>>,
              <<MkGame(BoardIHole, PieceAt("I", 3, -2, "North"), None, FALSE, <<>>), FALSE>>}

InitEnum ==
    /\ \E inp \in EnumInputs :
           /\ game = inp[1]
           /\ config = [soft_drop_allowed |-> inp[2]]
    /\ moves_remaining = 10
    /\ last = Idle
    /\ pc = "branch_game_to_placable_pieces"
    /\ steps = 0
    /\ results = {}
    /\ EnumIdle
    /\ SearchIdle

Top == stack[Len(stack)]

Frame(key) == [key |-> key, i |-> 1]

Count(f, k) == IF k \in DOMAIN f THEN f[k] ELSE 0

Put(f, k, v) == [x \in DOMAIN f \cup {k} |-> IF x = k THEN v ELSE f[x]]

AdvanceTop == [stack EXCEPT ![Len(stack)].i = @ + 1]

EnumFrame == UNCHANGED <<game, config, moves_remaining, last, in_progress, moved, steps>>

(* branch_game_to_placable_pieces with no active piece: vec![]. *)
EnumNoPiece ==
    /\ pc = "branch_game_to_placable_pieces"
    /\ game.piece.kind = None
    /\ results' = {}
    /\ pc' = "returned"
    /\ UNCHANGED <<memo, stack, expanded>>
    /\ EnumFrame

(* The first call of generate_placable_pieces, on an empty memo. *)
EnumCall ==
    /\ pc = "branch_game_to_placable_pieces"
    /\ game.piece.kind # None
    /\ stack' = <<Frame(KeyOf(game.piece))>>
    /\ expanded' = Put(expanded, KeyOf(game.piece), 1)
    /\ pc' = "generate_placable_pieces"
    /\ UNCHANGED <<memo, results>>
    /\ EnumFrame

NextMove == reduce(WithKey(game, Top.key), <<"Move", possible_moves(config)[Top.i]>>)

InLoop ==
    /\ pc = "generate_placable_pieces"
    /\ stack # <<>>
    /\ Top.i <= Len(possible_moves(config))

(* filter_map drops a move the reducer rejects. *)
EnumRejected ==
    /\ InLoop
    /\ ~NextMove.ok
    /\ stack' = AdvanceTop
    /\ UNCHANGED <<memo, expanded, results, pc>>
    /\ EnumFrame

(* memo.contains_key(&key): nothing to do. *)
EnumSeen ==
    /\ InLoop
    /\ NextMove.ok
    /\ KeyOf(NextMove.game.piece) \in DOMAIN memo
    /\ stack' = AdvanceTop
    /\ UNCHANGED <<memo, expanded, results, pc>>
    /\ EnumFrame

(* Set memo and continue branching from the new piece. *)
EnumInsert ==
    /\ InLoop
    /\ NextMove.ok
    /\ LET next_piece == NextMove.game.piece
           key == KeyOf(next_piece)
       IN  /\ key \notin DOMAIN memo
           /\ memo' = Put(memo, key,
                          [is_placable |-> can_place(game.board, get_points(next_piece)),
                           previous_key |-> Top.key])
           /\ stack' = Append(AdvanceTop, Frame(key))
           /\ expanded' = Put(expanded, key, Count(expanded, key) + 1)
    /\ UNCHANGED <<results, pc>>
    /\ EnumFrame

(* The loop of a call is over: return to the caller. *)
EnumReturn ==
    /\ pc = "generate_placable_pieces"
    /\ stack # <<>>
    /\ Top.i > Len(possible_moves(config))
    /\ stack' = SubSeq(stack, 1, Len(stack) - 1)
    /\ UNCHANGED <<memo, expanded, results, pc>>
    /\ EnumFrame

(* Back in branch_game_to_placable_pieces: keep the placable keys of memo. *)
EnumCollect ==
    /\ pc = "generate_placable_pieces"
    /\ stack = <<>>
    /\ results' = {k \in DOMAIN memo : memo[k].is_placable}
    /\ pc' = "returned"
    /\ UNCHANGED <<memo, stack, expanded>>
    /\ EnumFrame

NextEnum ==
    EnumNoPiece \/ EnumCall \/ EnumRejected \/ EnumSeen \/ EnumInsert
        \/ EnumReturn \/ EnumCollect

SpecEnum == InitEnum /\ [][NextEnum]_vars

------------------------------------------------------------------------------
(* solver.rs: the perfect-clear search.  A behaviour follows one branch of *)
(* the recursion of generate_next_states: the iterator chains pick one     *)
(* state with a piece, one hold choice, one enumerated placement.  The     *)
(* enumerated placements are the keys a walk of at least one possible move *)
(* reaches; moved records that the walk has made a move.                   *)

(* A variant of branch_state_for_piece: the speculative kinds are injected *)
(* whenever no piece is active, next to the piece drawn from the queue.    *)
branch_state_for_piece_always_guessing(st) ==
    IF st.game.piece.kind # None THEN {st}
    ELSE
        LET consumed == state_reduce(st, <<"ConsumeQueue">>)
        IN  (IF consumed.ok THEN {consumed.state} ELSE {})
                \cup {state_reduce(st, <<"GuessNext", kind>>).state :
                         kind \in {k \in PieceKinds :
                                      state_reduce(st, <<"GuessNext", k>>).ok}}

(* A variant of branch_state_for_piece: the queue front is drawn even when *)
(* a piece is active.                                                      *)
branch_state_for_piece_queue_first(st) ==
    LET consumed == state_reduce(st, <<"ConsumeQueue">>)
    IN  IF consumed.ok THEN {consumed.state}
        ELSE IF st.game.piece.kind # None THEN {st}
        ELSE IF consumed.err = "QueueEmpty"
        THEN {state_reduce(st, <<"GuessNext", kind>>).state :
                 kind \in {k \in PieceKinds :
                              state_reduce(st, <<"GuessNext", k>>).ok}}
        ELSE {}

branch_state_for_piece(st) ==
    IF st.game.piece.kind # None THEN {st}
    ELSE
        LET consumed == state_reduce(st, <<"ConsumeQueue">>)
        IN  IF consumed.ok THEN {consumed.state}
            ELSE IF consumed.err = "QueueEmpty"
            THEN {state_reduce(st, <<"GuessNext", kind>>).state :
                     kind \in {k \in PieceKinds :
                                  state_reduce(st, <<"GuessNext", k>>).ok}}
            ELSE {}

(* A variant of branch_game_on_hold: the game itself when no Hold succeeds. *)
branch_game_on_hold_keeping_game(g) ==
    IF \A b \in BOOLEAN : ~reduce(g, <<"Hold", b>>).ok THEN {g}
    ELSE {reduce(g, <<"Hold", switch>>).game :
             switch \in {b \in BOOLEAN : reduce(g, <<"Hold", b>>).ok}}

branch_game_on_hold(g) ==
    {reduce(g, <<"Hold", switch>>).game :
        switch \in {b \in BOOLEAN : reduce(g, <<"Hold", b>>).ok}}

(* Variants of entry_outcome. *)
entry_outcome_no_budget(st) ==
    IF can_perfect_clear(st.game.board) THEN "found" ELSE "branch"

entry_outcome_budget_first(st) ==
    IF st.moves_remaining = 0 THEN "out_of_moves"
    ELSE IF can_perfect_clear(st.game.board) THEN "found"
    ELSE "branch"

(* The two early returns at the head of generate_next_states. *)
entry_outcome(st) ==
    IF can_perfect_clear(st.game.board) THEN "found"
    ELSE IF st.moves_remaining = 0 THEN "out_of_moves"
    ELSE "branch"

(* The largest move budget of an input of the search. *)
MaxMoves == 2

(* The two bottom rows but for two 2x2 holes at columns 0..1 and 4..5. *)
BoardTwoOHoles ==
    BoardOHole \ BoardOf({<<0, 0>>, <<1, 0>>, <<0, 1>>, <<1, 1>>})

(* One filled cell in the top row of the board, (5,5). *)
BoardHighCell == BoardOf({<<5, 5>>})

(* The four bottom rows but for a flat I hole in row 3 at columns 3..6 and *)
(* a 2x2 hole in rows 2..3 at columns 0..1.                                *)
BoardIAndOHole ==
    FOUR_PC_FILL \ BoardOf({<<3, 3>>, <<4, 3>>, <<5, 3>>, <<6, 3>>,
                            <<0, 2>>, <<1, 2>>, <<0, 3>>, <<1, 3>>})

SearchGames ==
    {MkGame(PC_FILLS[n], NoPiece, None, FALSE, <<>>) : n \in 1 .. 4}
        \cup {initial_game,
              MkGame(ONE_PC_FILL, NoPiece, "T", FALSE, <<"I", "O">>),
              MkGame(BoardIHole, NoPiece, None, FALSE, <<"I", "O">>),
              MkGame(BoardIHole, spawn("O"), "I", FALSE, <<"T">>),
              MkGame(BoardIHole, spawn("I"), None, TRUE, <<"I">>),
              MkGame(BoardIHoleExtra, NoPiece, None, FALSE, <<"I", "T">>),
              MkGame(BoardOHole, NoPiece, None, FALSE, <<>>),
              MkGame(BoardTwoOHoles, NoPiece, None, FALSE, <<"O", "O">>),
              MkGame(BoardTall, NoPiece, "I", FALSE, <<"I", "I">>),
              MkGame(filled_board, NoPiece, None, FALSE, <<"O", "I">>),
              MkGame(BoardHighCell, NoPiece, None, FALSE, <<"O", "I">>),
              MkGame(BoardIAndOHole, NoPiece, None, FALSE, <<"I">>),
              MkGame(BoardIAndOHole, spawn("I"), None, FALSE, <<"O">>),
              MkGame(ONE_PC_FILL, spawn("I"), "T", TRUE, <<>>)}

(* The largest move budget of an input whose pieces are all guessed. *)
MaxGuessMoves == 1

Budgets(g) ==
    IF g.piece.kind = None /\ g.queue[1] = None
    THEN 0 .. MaxGuessMoves
    ELSE 0 .. MaxMoves

InitSearch ==
    /\ game \in SearchGames
    /\ moves_remaining \in Budgets(game)
    /\ config = default_config
    /\ last = Idle
    /\ pc = "generate_next_states"
    /\ steps = 0
    /\ results = <<>>
    /\ in_progress = <<MkState(game, moves_remaining)>>
    /\ moved = FALSE
    /\ EnumIdle

Current == MkState(game, moves_remaining)

SearchFrame == UNCHANGED <<config, last, memo, stack, expanded, steps>>

(* can_perfect_clear: push the path in progress and return. *)
FoundPerfectClear ==
    /\ pc = "generate_next_states"
    /\ entry_outcome(Current) = "found"
    /\ results' = Append(results, [game_path |-> in_progress])
    /\ pc' = "found"
    /\ UNCHANGED <<game, moves_remaining, in_progress, moved>>
    /\ SearchFrame

(* moves_remaining == 0: return. *)
OutOfMoves ==
    /\ pc = "generate_next_states"
    /\ entry_outcome(Current) = "out_of_moves"
    /\ pc' = "out_of_moves"
    /\ UNCHANGED <<game, moves_remaining, in_progress, results, moved>>
    /\ SearchFrame

Branch ==
    /\ pc = "generate_next_states"
    /\ entry_outcome(Current) = "branch"
    /\ pc' = "branch_state_for_piece"
    /\ UNCHANGED <<game, moves_remaining, in_progress, results, moved>>
    /\ SearchFrame

BranchStateForPiece ==
    /\ pc = "branch_state_for_piece"
    /\ \E state_with_piece \in branch_state_for_piece(Current) :
           /\ game' = state_with_piece.game
           /\ moves_remaining' = state_with_piece.moves_remaining
    /\ pc' = "branch_game_on_hold"
    /\ UNCHANGED <<in_progress, results, moved>>
    /\ SearchFrame

BranchGameOnHold ==
    /\ pc = "branch_game_on_hold"
    /\ \E game_after_hold \in branch_game_on_hold(game) : game' = game_after_hold
    /\ pc' = "generate_placable_pieces"
    /\ moved' = FALSE
    /\ UNCHANGED <<moves_remaining, in_progress, results>>
    /\ SearchFrame

(* One possible move the reducer accepts: its key enters the memo. *)
WalkMove ==
    /\ pc = "generate_placable_pieces"
    /\ \E i \in 1 .. Len(possible_moves(config)) :
           LET r == reduce(game, <<"Move", possible_moves(config)[i]>>)
           IN  r.ok /\ game' = r.game
    /\ moved' = TRUE
    /\ UNCHANGED <<pc, moves_remaining, in_progress, results>>
    /\ SearchFrame

(* A variant of IsEnumerated: every key of the memo, placable or not. *)
IsEnumerated_any_memo_key ==
    /\ pc = "generate_placable_pieces"
    /\ moved

IsEnumerated ==
    /\ pc = "generate_placable_pieces"
    /\ moved
    /\ can_place(game.board, get_points(game.piece))

Placements == Len(in_progress) - 1

AfterPlace == state_reduce(Current, <<"Play", <<"Place">>>>)

(* Place on an enumerated placement, unwrap, then the row-4 test: either   *)
(* drop the state or recurse on it.                                        *)
PlacePiece ==
    /\ IsEnumerated
    /\ IF ~AfterPlace.ok
       THEN /\ pc' = "panic"
            /\ UNCHANGED <<game, moves_remaining, in_progress>>
       ELSE /\ game' = AfterPlace.state.game
            /\ moves_remaining' = AfterPlace.state.moves_remaining
            /\ IF ~is_line_empty(AfterPlace.state.game.board, 4)
               THEN /\ pc' = "pruned"
                    /\ UNCHANGED in_progress
               ELSE /\ pc' = "generate_next_states"
                    /\ in_progress' = Append(in_progress, AfterPlace.state)
    /\ moved' = FALSE
    /\ UNCHANGED results
    /\ SearchFrame

NextSearch ==
    FoundPerfectClear \/ OutOfMoves \/ Branch \/ BranchStateForPiece
        \/ BranchGameOnHold \/ WalkMove \/ PlacePiece

SpecSearch == InitSearch /\ [][NextSearch]_vars

------------------------------------------------------------------------------
(* Properties of the search (SpecSearch).                                  *)

IsPcMask(board) == \E n \in 1 .. 4 : board = UNION {Row(y) : y \in 0 .. (n - 1)}

Input == in_progress[1]

Branching == pc \in {"branch_state_for_piece", "branch_game_on_hold", "generate_placable_pieces"}

(* C1: every returned path ends in a state whose board is one of the four  *)
(* PC masks and no earlier state of the path has a PC board; a state with  *)
(* a PC board is never expanded.                                           *)
C1_PathsEndAtFirstPcBoard ==
    /\ \A r \in 1 .. Len(results) :
           LET path == results[r].game_path
           IN  /\ IsPcMask(path[Len(path)].game.board)
               /\ \A i \in 1 .. (Len(path) - 1) : ~IsPcMask(path[i].game.board)
    /\ Branching => \A i \in 1 .. Len(in_progress) : ~IsPcMask(in_progress[i].game.board)

C1_FoundAfterPlacements == pc = "found" /\ Placements = 2 /\ Len(results) = 1

EmptyInput == Input.game = initial_game

PcInput == IsPcMask(Input.game.board) /\ Input.game.piece.kind = None

(* C6: when the input board is a PC mask and there is no active piece, the *)
(* search returns exactly one solution, the path of the input state alone. *)
C6_PcInputOneTrivialSolution ==
    PcInput =>
        /\ pc \in {"generate_next_states", "found"}
        /\ Placements = 0
        /\ game = Input.game
        /\ pc = "generate_next_states" => results = <<>> /\ ENABLED FoundPerfectClear
        /\ pc = "found" => results = <<[game_path |-> <<Input>>]>>

C6_TrivialSolutionFound ==
    /\ PcInput
    /\ pc = "found"
    /\ Input.moves_remaining = 0
    /\ Len(results) = 1
    /\ Len(results[1].game_path) = 1

------------------------------------------------------------------------------
(* Properties of the placement enumerator (SpecEnum).                      *)

Lockable(g, keys) == {k \in keys : can_place(g.board, get_points(WithKey(g, k).piece))}

ReachableKeys(g, cfg) == MemoKeys(g, cfg, {KeyOf(g.piece)}, {KeyOf(g.piece)})

(* C7 as stated: the enumerator returns exactly the keys reachable from    *)
(* the piece by a possibly empty sequence of accepted possible moves, the  *)
(* starting key included, on which can_place holds.                        *)
C7_ReachableLockableKeys ==
    (pc = "returned" /\ game.piece.kind # None) =>
        results = Lockable(game, ReachableKeys(game, config))

OfOrientation(keys, o) == {k \in keys : k[2] = o}

(* C8: for an I at its spawn placement on the empty board the enumerator   *)
(* returns exactly 34 keys: 10 East, 10 West, 7 North at y = -2 and        *)
(* 7 South at y = -1.                                                      *)
C8_ISpawnEmptyBoard34 ==
    (pc = "returned" /\ game = ISpawnEmptyGame) =>
        /\ Cardinality(results) = 34
        /\ Cardinality(OfOrientation(results, "East")) = 10
        /\ Cardinality(OfOrientation(results, "West")) = 10
        /\ Cardinality(OfOrientation(results, "North")) = 7
        /\ Cardinality(OfOrientation(results, "South")) = 7
        /\ \A k \in OfOrientation(results, "North") : k[1][2] = -2
        /\ \A k \in OfOrientation(results, "South") : k[1][2] = -1

C8_ISpawnEnumerated ==
    /\ pc = "returned"
    /\ game = ISpawnEmptyGame
    /\ ~config.soft_drop_allowed
    /\ Cardinality(results) = 34
    /\ <<<<3, -2>>, "North">> \in results

(* C9 as stated: for a T at its spawn placement on the T-spin-triple board *)
(* the enumerator returns exactly 8 placements, East at (2, 0) among them. *)
C9_TSpinTripleEight ==
    (pc = "returned" /\ game = TSpinTripleGame) =>
        /\ Cardinality(results) = 8
        /\ <<<<2, 0>>, "East">> \in results

------------------------------------------------------------------------------
(* Properties of the reducer (Spec).                                       *)

LegalPlacement(g) ==
    /\ can_fit(g.board, get_points(g.piece))
    /\ \E i \in 1 .. 4 : is_filled(g.board, PointAdd(get_points(g.piece)[i], <<0, -1>>))

(* C10 as stated: can_place holds, and Place succeeds, exactly when every  *)
(* cell of the piece reads empty and a cell directly below one of them     *)
(* reads filled or is the floor; any other Place with an active piece      *)
(* returns PieceInAir.                                                     *)
C10_PlaceIffLegal ==
    [][(last'.action = <<"Play", <<"Place">>>> /\ steps' = steps + 1 /\ game.piece.kind # None)
          => /\ can_place(game.board, get_points(game.piece)) <=> LegalPlacement(game)
             /\ last'.result = "Ok" <=> LegalPlacement(game)
             /\ ~LegalPlacement(game) => last'.result = "PieceInAir"]_vars

PlaceAction == <<"Play", <<"Place">>>>

Called(action) == last'.action = action /\ steps' = steps + 1

OnBoard(c) == c[1] \in 0 .. (BoardWidth - 1) /\ c[2] \in 0 .. (BoardHeight - 1)

PieceCells(piece) == {get_points(piece)[i] : i \in 1 .. 4}

FullRows(board) == {y \in 0 .. (BoardHeight - 1) : Row(y) \subseteq board}

(* The board without its full rows, every other row moved down by the     *)
(* number of full rows below it.                                           *)
WithoutFullRows(board) ==
    {CellIndex(i % BoardWidth,
               (i \div BoardWidth)
                   - Cardinality({r \in FullRows(board) : r < i \div BoardWidth})) :
        i \in {j \in board : (j \div BoardWidth) \notin FullRows(board)}}

PlacedBoard(g) ==
    LET filled == g.board \cup BoardOf({c \in PieceCells(g.piece) : OnBoard(c)})
    IN  IF IsPcMask(filled) THEN filled ELSE WithoutFullRows(filled)

HoldActions == {<<"Play", <<"Hold", switch>>>> : switch \in BOOLEAN}

SwitchAction == <<"Play", <<"Hold", TRUE>>>>

(* C14: a successful Hold{switch: true} makes the held kind the active     *)
(* piece at that kind's spawn point in North orientation, whatever the     *)
(* position and orientation of the replaced piece, stores the replaced     *)
(* piece's kind in hold_kind, sets is_hold_used, and leaves board and      *)
(* queue unchanged.                                                        *)
C14_SwitchFrame ==
    [][(Called(SwitchAction) /\ last'.result = "Ok") =>
          game' = [board |-> game.board,
                   queue |-> game.queue,
                   is_hold_used |-> TRUE,
                   hold_kind |-> game.piece.kind,
                   piece |-> [kind |-> game.hold_kind,
                              position |-> get_spawn_point(game.hold_kind),
                              orientation |-> "North"]]]_vars

C14_SwitchedFromRotatedPiece ==
    /\ steps = 1
    /\ last = [action |-> SwitchAction, result |-> "Ok"]
    /\ game = MkGame(BoardOHole, PieceAt("T", 3, 19, "North"), "O", TRUE, <<"L">>)

SpawnCells(kind) == {get_points(spawn(kind))[i] : i \in 1 .. 4}

(* C15: Hold{switch: true} on an available hold returns PieceCollision and *)
(* leaves the game unchanged whenever a cell the held kind occupies at its *)
(* spawn placement has been filled on the board, for example after fill   *)
(* on the cells (3,20)..(6,20) with I held and J active.                   *)
C15_SpawnCollision ==
    [][(/\ Called(SwitchAction)
        /\ ~game.is_hold_used
        /\ game.hold_kind # None
        /\ \/ \E c \in SpawnCells(game.hold_kind) : is_filled(game.board, c)
           \/ game = HoldCollisionGame) =>
          last'.result = "PieceCollision" /\ game' = game]_vars

FullBag == <<"I", "J", "L", "O", "S", "T", "Z">>

C17_NewPieceResetsHold ==
    [][(/\ steps' = steps + 1
        /\ last'.action[1] \in {"ConsumeQueue", "GuessNext"}
        /\ last'.result = "Ok") =>
          /\ game'.piece.kind # None
          /\ ~game'.is_hold_used]_vars

RotateActions == {<<"Play", <<"Move", <<"Rotate", r>>>>>> : r \in Rotations}

RotatedInPlace(piece, r) == [piece EXCEPT !.orientation = rotated(piece.orientation, r)]

Kicks(piece, r) == kick_table(piece.kind, piece.orientation, rotated(piece.orientation, r))

KickFits(g, r, k) ==
    can_fit(g.board,
            get_points([RotatedInPlace(g.piece, r) EXCEPT
                           !.position = PointAdd(g.piece.position, Kicks(g.piece, r)[k])]))

FittingKicks(g, r) == {k \in 1 .. Len(Kicks(g.piece, r)) : KickFits(g, r, k)}

(* C18: Move(Rotate(r)) keeps the position when the rotated piece fits in  *)
(* place; otherwise it applies the first offset, in kick-table order,      *)
(* whose translated placement fits, never a later one when an earlier one  *)
(* fits; when no kick fits or the table has no entry it returns            *)
(* InvalidMove and the game is unchanged.                                  *)
C18_FirstFittingKick ==
    [][\A r \in Rotations :
          (Called(<<"Play", <<"Move", <<"Rotate", r>>>>>>) /\ game.piece.kind # None) =>
              IF can_fit(game.board, get_points(RotatedInPlace(game.piece, r)))
              THEN /\ last'.result = "Ok"
                   /\ game' = [game EXCEPT !.piece = RotatedInPlace(game.piece, r)]
              ELSE IF FittingKicks(game, r) = {}
              THEN last'.result = "InvalidMove" /\ game' = game
              ELSE LET k == CHOOSE i \in FittingKicks(game, r) :
                                \A j \in FittingKicks(game, r) : i <= j
                   IN  /\ last'.result = "Ok"
                       /\ game' = [game EXCEPT !.piece =
                              [RotatedInPlace(game.piece, r) EXCEPT
                                  !.position = PointAdd(game.piece.position,
                                                        Kicks(game.piece, r)[k])]]]_vars

C18_ThirdKickApplied ==
    /\ steps = 1
    /\ last = [action |-> <<"Play", <<"Move", <<"Rotate", "AntiClockwise">>>>>>,
               result |-> "Ok"]
    /\ game = MkGame(BoardOneCell, PieceAt("I", -1, 1, "West"), None, FALSE, <<"T">>)

QuarterTurns ==
    {<<"North", "East">>, <<"East", "South">>, <<"South", "West">>, <<"West", "North">>,
     <<"East", "North">>, <<"South", "East">>, <<"West", "South">>, <<"North", "West">>}

IsOffset(p) == Len(p) = 2 /\ p[1] \in -2 .. 2 /\ p[2] \in -2 .. 2

(* C19: kick_table returns exactly four offsets for every kind in          *)
(* {I, J, L, S, T, Z} and each of the eight quarter-turn transitions, and  *)
(* returns none for the O piece and for every other (from, to) pair,       *)
(* including half turns and from = to; so does the table of the active     *)
(* piece for each rotation.                                                *)
C19_KickTableShape ==
    /\ \A kind \in PieceKinds, from \in Orientations, to \in Orientations :
           LET table == kick_table(kind, from, to)
           IN  IF kind # "O" /\ <<from, to>> \in QuarterTurns
               THEN Len(table) = 4 /\ \A i \in 1 .. 4 : IsOffset(table[i])
               ELSE table = <<>>
    /\ PieceKinds = {"I", "J", "L", "O", "S", "T", "Z"}
    /\ (pc = "reduce" /\ game.piece.kind # None) =>
           \A r \in Rotations :
               Len(Kicks(game.piece, r)) =
                   IF game.piece.kind # "O" /\ r # "Half" THEN 4 ELSE 0

C19_HalfTurnWithoutKicks ==
    /\ last = [action |-> <<"Play", <<"Move", <<"Rotate", "Half">>>>>>,
               result |-> "InvalidMove"]
    /\ game.piece.kind # "O"
    /\ Kicks(game.piece, "Half") = <<>>
    /\ Len(Kicks(game.piece, "Clockwise")) = 4

DropAction == <<"Play", <<"Move", <<"Drop">>>>>>

Lowered(piece, n) == [piece EXCEPT !.position[2] = @ - n]

(* Translate(Down) applied until it fails. *)
RECURSIVE TranslatedDownUntilFail(_)
TranslatedDownUntilFail(g) ==
    LET r == with_translated_piece(g, "Down")
    IN  IF r.ok THEN TranslatedDownUntilFail(r.game) ELSE g

DropAsClaimed(g, result, next) ==
    /\ result = "InvalidMove" <=> ~can_fit(g.board, get_points(Lowered(g.piece, 1)))
    /\ result = "InvalidMove" => next = g
    /\ result # "InvalidMove" =>
           /\ result = "Ok"
           /\ next = [g EXCEPT !.piece.position[2] = next.piece.position[2]]
           /\ next.piece.position[2] < g.piece.position[2]
           /\ can_fit(g.board, get_points(next.piece))
           /\ ~can_fit(g.board, get_points(Lowered(next.piece, 1)))
    /\ next = TranslatedDownUntilFail(g)

(* C20: for every game with an active piece, Move(Drop) either returns     *)
(* InvalidMove, exactly when the piece shifted down by one does not fit,   *)
(* or returns the piece with the same kind, x and orientation at a         *)
(* strictly lower y at which it fits and below which one further step does *)
(* not fit; its result equals Translate(Down) applied until it fails.      *)
C20_DropIsRepeatedDown ==
    [][(Called(DropAction) /\ game.piece.kind # None) =>
          DropAsClaimed(game, last'.result, game')]_vars

(* The same statement for the games whose active piece fits where it      *)
(* stands, which is every piece the reducers themselves produce.           *)
DropOfFittingPiece ==
    [][(Called(DropAction) /\ game.piece.kind # None
          /\ can_fit(game.board, get_points(game.piece))) =>
          DropAsClaimed(game, last'.result, game')]_vars

------------------------------------------------------------------------------
(* solver.rs: the whole search of branch_state_to_perfect_clears in one    *)
(* run.  game and moves_remaining are the state of the current call of     *)
(* generate_next_states, in_progress its path; a frame of stack is a call  *)
(* in its for_each loop: its state and the states after a move it has      *)
(* still to place; expanded counts, per (board, moves_remaining), the      *)
(* calls that went on to branch.  The states of the loop are taken in one  *)
(* fixed order: the calls made do not depend on the order.                 *)

(* branch_game_to_placable_pieces: one game per placable key of the memo. *)
branch_game_to_placable_pieces(g, cfg) ==
    IF g.piece.kind = None THEN {}
    ELSE {WithKey(g, key) :
             key \in {k \in MemoKeys(g, cfg, {KeyOf(g.piece)}, {}) :
                         can_place(g.board, get_points(WithKey(g, k).piece))}}

(* The states the three flat_maps of generate_next_states yield. *)
states_after_move(st, cfg) ==
    UNION {UNION {{MkState(game_after_move, state_with_piece.moves_remaining) :
                      game_after_move \in branch_game_to_placable_pieces(game_after_hold, cfg)} :
                  game_after_hold \in branch_game_on_hold(state_with_piece.game)} :
           state_with_piece \in branch_state_for_piece(st)}

(* Rows 0..3 filled but for three 2x2 holes in rows 2..3 and the cells     *)
(* (0,0) and (0,1) under the first hole.                                   *)
BoardThreeOHoles ==
    FOUR_PC_FILL \ BoardOf({<<x, y>> : x \in {0, 1, 4, 5, 8, 9}, y \in {2, 3}}
                              \cup {<<0, 0>>, <<0, 1>>})

SolveInputs ==
    {MkState(MkGame(BoardThreeOHoles, NoPiece, None, FALSE, <<"O", "O", "O">>), 3),
     MkState(MkGame(BoardTwoOHoles, NoPiece, None, FALSE, <<"O", "O">>), 2),
     MkState(MkGame(BoardIHole, NoPiece, "O", FALSE, <<"I">>), 1),
     MkState(MkGame(TWO_PC_FILL, NoPiece, None, FALSE, <<>>), 0),
     MkState(initial_game, 0)}

InitSolve ==
    /\ \E st \in SolveInputs :
           /\ game = st.game
           /\ moves_remaining = st.moves_remaining
    /\ config = default_config
    /\ last = Idle
    /\ pc = "call"
    /\ steps = 0
    /\ results = <<>>
    /\ in_progress = <<MkState(game, moves_remaining)>>
    /\ moved = FALSE
    /\ memo = <<>>
    /\ stack = <<>>
    /\ expanded = <<>>

SolveFrame == UNCHANGED <<config, last, memo, moved, steps>>

NodeKey(st) == <<st.game.board, st.moves_remaining>>

(* can_perfect_clear: push the path in progress and return. *)
SolveFound ==
    /\ pc = "call"
    /\ entry_outcome(Current) = "found"
    /\ results' = Append(results, [game_path |-> in_progress])
    /\ pc' = "return"
    /\ UNCHANGED <<game, moves_remaining, in_progress, stack, expanded>>
    /\ SolveFrame

(* moves_remaining == 0: return. *)
SolveOutOfMoves ==
    /\ pc = "call"
    /\ entry_outcome(Current) = "out_of_moves"
    /\ pc' = "return"
    /\ UNCHANGED <<game, moves_remaining, in_progress, results, stack, expanded>>
    /\ SolveFrame

(* The call branches: the iterator chain is built and the loop entered. *)
SolveExpand ==
    /\ pc = "call"
    /\ entry_outcome(Current) = "branch"
    /\ stack' = Append(stack, [state |-> Current,
                               todo |-> states_after_move(Current, config)])
    /\ expanded' = Put(expanded, NodeKey(Current), Count(expanded, NodeKey(Current)) + 1)
    /\ pc' = "loop"
    /\ UNCHANGED <<game, moves_remaining, in_progress, results>>
    /\ SolveFrame

(* One iteration of the for_each: Place, then the row-4 test: either skip  *)
(* the state or call generate_next_states on it.                           *)
SolveNext ==
    /\ pc = "loop"
    /\ Top.todo # {}
    /\ LET state_after_move == CHOOSE st \in Top.todo : TRUE
           state_after_place == state_reduce(state_after_move, <<"Play", <<"Place">>>>).state
       IN  /\ stack' = [stack EXCEPT ![Len(stack)].todo = @ \ {state_after_move}]
           /\ IF ~is_line_empty(state_after_place.game.board, 4)
              THEN UNCHANGED <<game, moves_remaining, in_progress, pc>>
              ELSE /\ game' = state_after_place.game
                   /\ moves_remaining' = state_after_place.moves_remaining
                   /\ in_progress' = Append(in_progress, state_after_place)
                   /\ pc' = "call"
    /\ UNCHANGED <<results, expanded>>
    /\ SolveFrame

(* The for_each is over: the call returns. *)
SolveLoopEnd ==
    /\ pc = "loop"
    /\ Top.todo = {}
    /\ stack' = SubSeq(stack, 1, Len(stack) - 1)
    /\ pc' = "return"
    /\ UNCHANGED <<game, moves_remaining, in_progress, results, expanded>>
    /\ SolveFrame

(* Back in the loop of the caller, or out of the search. *)
SolveReturn ==
    /\ pc = "return"
    /\ IF stack = <<>>
       THEN /\ pc' = "done"
            /\ UNCHANGED <<game, moves_remaining, in_progress>>
       ELSE /\ pc' = "loop"
            /\ game' = Top.state.game
            /\ moves_remaining' = Top.state.moves_remaining
            /\ in_progress' = SubSeq(in_progress, 1, Len(stack))
    /\ UNCHANGED <<results, stack, expanded>>
    /\ SolveFrame

NextSolve ==
    SolveFound \/ SolveOutOfMoves \/ SolveExpand \/ SolveNext
        \/ SolveLoopEnd \/ SolveReturn

SpecSolve == InitSolve /\ [][NextSolve]_vars

------------------------------------------------------------------------------
(* Board operations on their own: a board, then fill, empty and            *)
(* clear_filled_lines applied to it.  stack is the history of the run: the *)
(* operation applied and the board it was applied to.                      *)

MaxBoardOps == 3

(* Rows 0 and 2 filled, cells in rows 1, 3, 4 and 5. *)
BoardMixedRows ==
    Row(0) \cup Row(2)
        \cup BoardOf({<<0, 1>>, <<5, 1>>, <<9, 3>>, <<2, 4>>, <<3, 4>>, <<7, 5>>})

(* Row 1 filled but for (3,1), cells in rows 4 and 5. *)
BoardHighCells == (Row(1) \ BoardOf({<<3, 1>>})) \cup BoardOf({<<4, 4>>, <<0, 5>>, <<9, 5>>})

BoardInputs ==
    {empty_board, filled_board, ONE_PC_FILL, TWO_PC_FILL, THREE_PC_FILL, FOUR_PC_FILL,
     BoardIHole, BoardOHole, BoardOneCell, BoardTall, TSpinTripleBoard,
     BoardMixedRows, BoardHighCells, FOUR_PC_FILL \cup Row(4),
     THREE_PC_FILL \ BoardOf({<<9, 0>>})}

BoardPoints ==
    {<<0, 0>>, <<9, 0>>, <<3, 1>>, <<4, 4>>, <<0, 5>>,
     <<-1, 0>>, <<10, 5>>, <<0, -1>>, <<3, 6>>}

InitBoard ==
    /\ \E board \in BoardInputs : game = MkGame(board, NoPiece, None, FALSE, <<>>)
    /\ config = default_config
    /\ moves_remaining = 0
    /\ last = Idle
    /\ pc = "board"
    /\ steps = 0
    /\ results = <<>>
    /\ memo = <<>>
    /\ stack = <<>>
    /\ expanded = <<>>
    /\ SearchIdle

BoardOp(op, next_board) ==
    /\ pc = "board"
    /\ steps < MaxBoardOps
    /\ game' = [game EXCEPT !.board = next_board]
    /\ stack' = Append(stack, [op |-> op, board |-> game.board])
    /\ steps' = steps + 1
    /\ UNCHANGED <<config, moves_remaining, last, pc, memo, expanded, in_progress,
                   results, moved>>

BoardFill == \E point \in BoardPoints : BoardOp(<<"fill", point>>, fill(game.board, point))

BoardEmpty == \E point \in BoardPoints : BoardOp(<<"empty", point>>, empty(game.board, point))

BoardClearFilledLines == BoardOp(<<"clear_filled_lines">>, clear_filled_lines(game.board))

NextBoard == BoardFill \/ BoardEmpty \/ BoardClearFilledLines

SpecBoard == InitBoard /\ [][NextBoard]_vars

------------------------------------------------------------------------------
(* Properties of the board operations (SpecBoard).                         *)

ProbeXs == -3 .. 12

ProbeYs == -3 .. 25

LastOp == stack[Len(stack)]

InWindow(p) == 0 <= p[1] /\ p[1] < 10 /\ 0 <= p[2] /\ p[2] < 6

(* The last two operations were first(p), second(p) on one cell p of the   *)
(* window.                                                                 *)
RoundTrip(first, second) ==
    /\ pc = "board"
    /\ Len(stack) >= 2
    /\ \E p \in BoardPoints :
           /\ InWindow(p)
           /\ stack[Len(stack) - 1].op = <<first, p>>
           /\ LastOp.op = <<second, p>>

RoundTripCell == LastOp.op[2]

PriorBoard == stack[Len(stack) - 1].board

(* C22 as stated: for any board and any cell p of the window, fill(p)      *)
(* followed by empty(p) returns the board to its prior value, and empty(p) *)
(* followed by fill(p) likewise.                                           *)
C22_RoundTripsRestore ==
    /\ RoundTrip("fill", "empty") => game.board = PriorBoard
    /\ RoundTrip("empty", "fill") => game.board = PriorBoard

(* C22 amended: fill(p) followed by empty(p) leaves the prior board with p *)
(* empty, which is the prior board exactly when p was empty before;        *)
(* empty(p) followed by fill(p) leaves the prior board with p filled,      *)
(* which is the prior board exactly when p was filled before.  Every       *)
(* other cell keeps its state.                                             *)
C22_RoundTripsRestoreOtherCells ==
    /\ RoundTrip("fill", "empty") =>
           /\ ~is_filled(game.board, RoundTripCell)
           /\ \A x \in 0 .. 9, y \in 0 .. 5 :
                  <<x, y>> # RoundTripCell =>
                      (is_filled(game.board, <<x, y>>) <=> is_filled(PriorBoard, <<x, y>>))
           /\ game.board = PriorBoard <=> ~is_filled(PriorBoard, RoundTripCell)
    /\ RoundTrip("empty", "fill") =>
           /\ is_filled(game.board, RoundTripCell)
           /\ \A x \in 0 .. 9, y \in 0 .. 5 :
                  <<x, y>> # RoundTripCell =>
                      (is_filled(game.board, <<x, y>>) <=> is_filled(PriorBoard, <<x, y>>))
           /\ game.board = PriorBoard <=> is_filled(PriorBoard, RoundTripCell)

C22_FillEmptyOnFilledCell ==
    /\ RoundTrip("fill", "empty")
    /\ RoundTripCell = <<0, 0>>
    /\ PriorBoard = BoardOneCell \cup BoardOf({<<0, 0>>})
    /\ game.board = BoardOneCell

(* The bottom n rows are completely filled and every row above is empty. *)
BottomRowsOnly(board, n) ==
    \A x \in 0 .. 9, y \in 0 .. 5 : is_filled(board, <<x, y>>) <=> y < n

RowCells(board, y) == {x \in 0 .. 9 : is_filled(board, <<x, y>>)}

UnfilledRows(board) == {y \in 0 .. 5 : RowCells(board, y) # 0 .. 9}

(* The k-th row, from the bottom and counting from 0, of the rows that are *)
(* not completely filled.                                                  *)
KthUnfilledRow(board, k) ==
    CHOOSE y \in UnfilledRows(board) :
        Cardinality({r \in UnfilledRows(board) : r < y}) = k

Cleared == pc = "board" /\ Len(stack) > 0 /\ LastOp.op = <<"clear_filled_lines">>

(* C24: clear_filled_lines is a stable compaction: the result holds        *)
(* exactly the rows of the input that are not completely filled, in        *)
(* unchanged bottom-to-top order and packed from row 0, with every row     *)
(* above them empty; a board without a completely filled row is left       *)
(* unchanged.                                                              *)
C24_StableCompaction ==
    Cleared =>
        /\ \A y \in 0 .. 5 :
               RowCells(game.board, y) =
                   IF y < Cardinality(UnfilledRows(LastOp.board))
                   THEN RowCells(LastOp.board, KthUnfilledRow(LastOp.board, y))
                   ELSE {}
        /\ UnfilledRows(LastOp.board) = 0 .. 5 => game.board = LastOp.board

C24_MixedRowsCompacted ==
    /\ Cleared
    /\ LastOp.board = BoardMixedRows
    /\ game.board = BoardOf({<<0, 0>>, <<5, 0>>, <<9, 1>>, <<2, 2>>, <<3, 2>>, <<7, 3>>})

FilledRowsBelow(board, y) == {r \in 0 .. 5 : r < y /\ RowCells(board, r) = 0 .. 9}

(* C25 as stated: a line clear does not move any cell located above the PC *)
(* window: every filled cell in rows 4 and 5 is at the same position       *)
(* before and after clear_filled_lines, whichever rows below are cleared.  *)
C25_HighCellsStay ==
    Cleared =>
        \A y \in {4, 5} : RowCells(game.board, y) = RowCells(LastOp.board, y)

(* C25 amended: clear_filled_lines compacts rows 4 and 5 like every other  *)
(* row: a filled cell of a not completely filled row 4 or 5 moves down by  *)
(* the number of completely filled rows below it, and rows 4 and 5 keep    *)
(* their cells only when no row of the board is completely filled.         *)
C25_HighCellsMoveDown ==
    Cleared =>
        /\ \A y \in {4, 5} :
               y \in UnfilledRows(LastOp.board) =>
                   RowCells(game.board, y - Cardinality(FilledRowsBelow(LastOp.board, y)))
                       = RowCells(LastOp.board, y)
        /\ UnfilledRows(LastOp.board) # 0 .. 5 => RowCells(game.board, 5) = {}

C25_HighCellsLowered ==
    /\ Cleared
    /\ LastOp.board = BoardHighCells \cup BoardOf({<<3, 1>>})
    /\ game.board = BoardOf({<<4, 3>>, <<0, 4>>, <<9, 4>>})

------------------------------------------------------------------------------
(* Properties of the piece geometry (Spec).                                *)

(* The clockwise map of the claim on a box of side s. *)
ClockwiseMap(offsets, s) == [i \in 1 .. 4 |-> <<offsets[i][2], s - 1 - offsets[i][1]>>]

(* C26: for every piece kind with bounding-box side s, mapping the North   *)
(* offsets by the clockwise map (ox, oy) -> (oy, s-1-ox) gives the East    *)
(* offsets, mapping again the South offsets, again the West offsets, and a *)
(* fourth time the North offsets, in step with rotated(Clockwise) going    *)
(* North, East, South, West, North; the points of the active piece turned  *)
(* clockwise are its own offsets mapped once.                              *)
C26_OrientationIsRotationComposition ==
    /\ \A kind \in PieceKinds, orientation \in Orientations :
           orient_offset_box(kind, rotated(orientation, "Clockwise"))
               = ClockwiseMap(orient_offset_box(kind, orientation),
                              get_bounding_box_size(kind))
    /\ rotated("North", "Clockwise") = "East"
    /\ rotated("East", "Clockwise") = "South"
    /\ rotated("South", "Clockwise") = "West"
    /\ rotated("West", "Clockwise") = "North"
    /\ \A kind \in PieceKinds : get_bounding_box_size(kind) = IF kind \in {"I", "O"} THEN 4 ELSE 3
    /\ (pc = "reduce" /\ game.piece.kind # None) =>
           get_points([game.piece EXCEPT !.orientation = rotated(@, "Clockwise")])
               = ShiftPoints(ClockwiseMap(orient_offset_box(game.piece.kind,
                                                            game.piece.orientation),
                                          get_bounding_box_size(game.piece.kind)),
                             game.piece.position)

C26_TurnedTwiceClockwise ==
    /\ pc = "reduce"
    /\ steps = 2
    /\ last = [action |-> <<"Play", <<"Move", <<"Rotate", "Clockwise">>>>>>, result |-> "Ok"]
    /\ game.piece.kind = "T"
    /\ game.piece.orientation = "South"
    /\ get_points(game.piece)
           = ShiftPoints(ClockwiseMap(ClockwiseMap(get_position_offsets("T"), 3), 3),
                         game.piece.position)

------------------------------------------------------------------------------
(* More properties of the search (SpecSearch).                             *)

HighRowsEmpty(board) == is_line_empty(board, 4) /\ is_line_empty(board, 5)

(* C28: no state whose board, after a Place, has a filled cell in row 4 or *)
(* in row 5 is expanded further or appears in a returned solution path.    *)
C28_HighBoardsNotExpanded ==
    /\ (pc = "branch_state_for_piece" /\ Placements >= 1) =>
           HighRowsEmpty(in_progress[Len(in_progress)].game.board)
    /\ pc \in {"generate_next_states", "found", "branch_state_for_piece"} =>
           \A k \in 1 .. Len(results) :
               \A i \in 2 .. Len(results[k].game_path) :
                   HighRowsEmpty(results[k].game_path[i].game.board)

(* The part of the statement about row 4. *)
Row4BoardsNotExpanded ==
    /\ (pc = "branch_state_for_piece" /\ Placements >= 1) =>
           is_line_empty(in_progress[Len(in_progress)].game.board, 4)
    /\ pc \in {"generate_next_states", "found", "branch_state_for_piece"} =>
           \A k \in 1 .. Len(results) :
               \A i \in 2 .. Len(results[k].game_path) :
                   is_line_empty(results[k].game_path[i].game.board, 4)

------------------------------------------------------------------------------
(* More properties of the placement enumerator (SpecEnum).                 *)

(* C29: the placement enumeration terminates for every board and active    *)
(* piece, and every (position, orientation) key, the starting key          *)
(* included, has its moves tried (is expanded) at most once.               *)
C29_EachKeyExpandedOnce ==
    pc \in {"generate_placable_pieces", "returned"} =>
        \A key \in DOMAIN expanded : expanded[key] <= 1

(* The part of the statement about the keys other than the starting key. *)
OtherKeysExpandedOnce ==
    pc \in {"generate_placable_pieces", "returned"} =>
        \A key \in DOMAIN expanded : key # KeyOf(game.piece) => expanded[key] = 1

StartsAtSpawn == game.piece.kind # None /\ game.piece = spawn(game.piece.kind)

(* C30: every (position, orientation) key recorded by the placement        *)
(* enumerator, for a piece that starts at its spawn placement, has         *)
(* position.x in [-2, 11] and position.y in [-2, H+1] = [-2, 7].           *)
C30_KeysWithinWindow ==
    (pc \in {"generate_placable_pieces", "returned"} /\ StartsAtSpawn) =>
        \A key \in DOMAIN memo :
            /\ key[1][1] \in -2 .. 11
            /\ key[1][2] \in -2 .. (BoardHeight + 1)

(* The part of the statement about position.x, and the rows the keys       *)
(* take: from the floor up to the spawn row.                               *)
KeysWithinColumnsAndSpawnRow ==
    (pc \in {"generate_placable_pieces", "returned"} /\ StartsAtSpawn) =>
        \A key \in DOMAIN memo :
            /\ key[1][1] \in -2 .. 11
            /\ key[1][2] \in -2 .. get_spawn_point(game.piece.kind)[2]

------------------------------------------------------------------------------
(* Properties of the whole search (SpecSolve).                             *)

(* C27: during one search each (board, moves_remaining) subproblem is      *)
(* expanded exactly once: when the same board with the same remaining      *)
(* budget is reached again through a different order of placements, it is  *)
(* not expanded a second time.                                             *)
C27_SubproblemsExpandedOnce ==
    pc \in {"call", "loop", "return", "done"} =>
        \A key \in DOMAIN expanded : expanded[key] <= 1

------------------------------------------------------------------------------
(* Properties of the search and of the reducers, continued.                *)

(* C31: Place applied to a game returned by the placement enumerator always *)
(* succeeds: the unwrap of the Place result in generate_next_states never  *)
(* aborts, for every input board, piece, hold and queue.                   *)
C31_PlaceOnEnumeratedSucceeds ==
    /\ pc # "panic"
    /\ IsEnumerated => AfterPlace.ok /\ reduce(game, PlaceAction[2]).ok

(* Two enumerated placements have been placed and unwrapped, the first one *)
(* of a piece drawn from the queue.                                        *)
C31_TwoEnumeratedPlaced ==
    /\ pc = "generate_next_states"
    /\ Placements = 2
    /\ Input.game.queue[1] # None
    /\ in_progress[3].game.piece = NoPiece

QueueDrawn(g) == \A i \in 1 .. 7 : g.queue[i] = None

Shifted(queue) == [i \in 1 .. 7 |-> IF i < 7 THEN queue[i + 1] ELSE None]

(* The step of the search that gives the state its piece. *)
PieceStep == pc = "branch_state_for_piece" /\ pc' = "branch_game_on_hold"

(* A piece step that makes a piece active without drawing from the queue. *)
Speculative == PieceStep /\ game.piece.kind = None /\ game'.queue = game.queue

------------------------------------------------------------------------------
(* Moves of an I piece on the boards of the tests with_rotation::i_piece:  *)
(* the filled board but for the cells of the North piece and the cells of  *)
(* the East placement that one North-to-East kick selects.                 *)

NorthEastKicks == kick_table("I", "North", "East")

NorthI(p) == PieceAt("I", p[1], p[2], "North")

KickedEastI(p, i) ==
    PieceAt("I", p[1] + NorthEastKicks[i][1], p[2] + NorthEastKicks[i][2], "East")

KickBoard(p, i) ==
    EmptyAll(filled_board, PieceCells(NorthI(p)) \cup PieceCells(KickedEastI(p, i)))

(* The positions and kicks whose eight cells lie on the board. *)
KickCases ==
    {c \in ((-2 .. 8) \X (-3 .. 5)) \X (1 .. 4) :
        \A cell \in PieceCells(NorthI(c[1])) \cup PieceCells(KickedEastI(c[1], c[2])) :
            OnBoard(cell)}

(* The game of each case, and the same game with the kicked East piece. *)
KickGame ==
    [c \in KickCases |-> MkGame(KickBoard(c[1], c[2]), NorthI(c[1]), None, FALSE, <<>>)]

KickedGame ==
    [c \in KickCases |-> [KickGame[c] EXCEPT !.piece = KickedEastI(c[1], c[2])]]

KickGames == {KickGame[c] : c \in KickCases}

InitKick ==
    /\ game \in KickGames
    /\ config = default_config
    /\ moves_remaining = 10
    /\ last = Idle
    /\ pc = "reduce"
    /\ steps = 0
    /\ results = <<>>
    /\ EnumIdle
    /\ SearchIdle

NextKick == Move

SpecKick == InitKick /\ [][NextKick]_vars

ClockwiseAction == <<"Play", <<"Move", <<"Rotate", "Clockwise">>>>>>

AntiClockwiseAction == <<"Play", <<"Move", <<"Rotate", "AntiClockwise">>>>>>

(* Rotate(Clockwise) on the North piece of case c yields East at p + kick_i, *)
(* and Rotate(AntiClockwise) on that East piece yields North at p.           *)
KickRoundTrip(c) ==
    /\ game.piece = NorthI(c[1]) /\ game = KickGame[c] /\ Called(ClockwiseAction)
           => last'.result = "Ok" /\ game' = KickedGame[c]
    /\ game.piece = KickedEastI(c[1], c[2]) /\ game = KickedGame[c]
           /\ Called(AntiClockwiseAction)
           => last'.result = "Ok" /\ game' = KickGame[c]

(* The cases a piece can belong to: as the North piece of the case or as   *)
(* its kicked East piece.                                                  *)
CasesOf(piece) ==
    {c \in {<<piece.position, i>> : i \in 1 .. 4}
             \cup {<<PointAdd(piece.position,
                              <<-NorthEastKicks[i][1], -NorthEastKicks[i][2]>>), i>> :
                       i \in 1 .. 4} :
        c \in KickCases}

(* The cases whose piece lies in the top row and whose kick is the third:   *)
(* the placement of the first kick then has its top cell above the board.  *)
TopRowThirdKick(c) == c[2] = 3 /\ c[1][2] + 2 = BoardHeight - 1

C34_FilledBoardCanPerfectClear ==
    pc = "board" =>
        /\ game.board = filled_board => can_perfect_clear(game.board)
        /\ Len(stack) > 0 /\ LastOp.board = filled_board
               /\ LastOp.op[1] = "empty" /\ InWindow(LastOp.op[2])
               => ~can_perfect_clear(game.board)

(* The second half of C34 on its own: the filled board with one cell       *)
(* emptied cannot perfect clear.                                           *)
FilledBoardWithGapCannotPerfectClear ==
    pc = "board" /\ Len(stack) > 0 /\ LastOp.board = filled_board
        /\ LastOp.op[1] = "empty" /\ InWindow(LastOp.op[2])
        => game.board # filled_board /\ ~can_perfect_clear(game.board)

(* A cell reads empty: inside the walls, above the floor, on no filled cell. *)
ReadsEmpty(board, c) ==
    /\ 0 <= c[1] /\ c[1] <= BoardWidth - 1
    /\ 0 <= c[2]
    /\ c[2] <= BoardHeight - 1 => CellIndex(c[1], c[2]) \notin board

Fits(board, piece) == \A c \in PieceCells(piece) : ReadsEmpty(board, c)

MoveActions == {<<"Play", <<"Move", mov>>>> : mov \in Moves}

UnitOffset(direction) ==
    IF direction = "Left" THEN <<-1, 0>>
    ELSE IF direction = "Right" THEN <<1, 0>>
    ELSE <<0, -1>>

(* C35: a successful Move (Rotate, Translate or Drop) changes only the     *)
(* position and orientation of the active piece: its kind, the board,      *)
(* hold_kind, is_hold_used and the queue are unchanged; Translate changes  *)
(* the position by exactly the unit offset of its direction and returns    *)
(* InvalidMove when the shifted piece does not fit.                        *)
C35_MoveFrame ==
    [][\A action \in MoveActions :
          Called(action) =>
              /\ last'.result = "Ok" =>
                     /\ game.piece.kind # None
                     /\ game' = [game EXCEPT !.piece.position = game'.piece.position,
                                             !.piece.orientation = game'.piece.orientation]
                     /\ moves_remaining' = moves_remaining
              /\ last'.result # "Ok" => game' = game /\ moves_remaining' = moves_remaining
              /\ action[2][2][1] = "Translate" /\ game.piece.kind # None =>
                     LET shifted == [game.piece EXCEPT
                                        !.position = PointAdd(@, UnitOffset(action[2][2][2]))]
                     IN  IF Fits(game.board, shifted)
                         THEN last'.result = "Ok" /\ game'.piece = shifted
                         ELSE last'.result = "InvalidMove"]_vars

(* The T piece at its spawn point was translated left by one column. *)
C35_TranslatedLeft ==
    /\ pc = "reduce"
    /\ steps = 1
    /\ last = [action |-> <<"Play", <<"Move", <<"Translate", "Left">>>>>>, result |-> "Ok"]
    /\ game = MkGame(empty_board, PieceAt("T", 2, 19, "North"), "O", FALSE, <<"S", "Z">>)

GuessActions == {<<"GuessNext", kind>> : kind \in PieceKinds}

PieceFits(g) == g.piece.kind # None => Fits(g.board, g.piece)

(* C36: from a game whose active piece, if any, overlaps no filled cell,   *)
(* every game reached by successful Move, Hold, ConsumeQueue and           *)
(* speculative-injection actions has an active piece whose four cells all  *)
(* read empty: inside the walls, above the floor and on no filled cell.    *)
(* Stated as the step that carries it along every such sequence.           *)
C36_PieceStaysOnEmptyCells ==
    [][\A action \in MoveActions \cup HoldActions \cup GuessActions
                         \cup {<<"ConsumeQueue">>} :
          PieceFits(game) /\ Called(action) /\ last'.result = "Ok" => PieceFits(game')]_vars

(* J was drawn from the queue, moved, and exchanged with the held L: three *)
(* successful actions from a game without piece, the L on empty cells.     *)
C36_DrawnMovedAndSwitched ==
    /\ pc = "reduce"
    /\ steps = 3
    /\ Len(results) = 0
    /\ last = [action |-> <<"Play", <<"Hold", TRUE>>>>, result |-> "Ok"]
    /\ game = MkGame(empty_board, spawn("L"), "J", TRUE, <<>>)
    /\ Fits(game.board, game.piece)

(* The multiset of the active piece kind and the held kind of a game. *)
KindsInHand(g) ==
    [kind \in {g.piece.kind, g.hold_kind} |->
        IF g.piece.kind = g.hold_kind THEN 2 ELSE 1]

(* C37: Hold never creates or loses a piece kind: the multiset of the      *)
(* active piece kind and hold_kind is the same before and after every      *)
(* successful Hold; and a hold_kind of none stays none through Move, Hold, *)
(* Place, ConsumeQueue and speculative injection.                          *)
C37_HoldKeepsKinds ==
    [][/\ \A action \in HoldActions :
             Called(action) /\ last'.result = "Ok" => KindsInHand(game') = KindsInHand(game)
       /\ game.hold_kind = None => game'.hold_kind = None]_vars

(* The active T and the held O have changed places, and the O has been     *)
(* placed: T stays held.                                                   *)
C37_KindsExchanged ==
    /\ pc = "reduce"
    /\ steps = 3
    /\ results = <<"O">>
    /\ last = [action |-> PlaceAction, result |-> "Ok"]
    /\ game.hold_kind = "T"
    /\ game.queue = QueueOf(<<"S", "Z">>)

(* The step of the search that places a piece. *)
PlaceStep == IsEnumerated /\ pc' # pc

RECURSIVE QueuedKinds(_, _)
QueuedKinds(queue, i) ==
    IF i > 7 \/ queue[i] = None THEN <<>>
    ELSE <<queue[i]>> \o QueuedKinds(queue, i + 1)

(* The kinds the input hands to the search: its active piece, if any, and  *)
(* then its queue in order.                                                *)
GivenKinds ==
    (IF Input.game.piece.kind # None THEN <<Input.game.piece.kind>> ELSE <<>>)
        \o QueuedKinds(Input.game.queue, 1)

HoldUsedInput == Input.game.piece.kind # None /\ Input.game.is_hold_used

(* C40: when the input game has an active piece and is_hold_used is true,  *)
(* branch_game_on_hold yields no game, so the search explores no placement *)
(* and returns no solution unless the input board is already a PC mask;    *)
(* whenever is_hold_used is false the branch without switch survives; and  *)
(* every Place of the search is applied to a game with is_hold_used true.  *)
C40_HoldGatesEveryPlacement ==
    /\ [](HoldUsedInput =>
             /\ Placements = 0
             /\ pc \notin {"generate_placable_pieces", "pruned", "panic"}
             /\ results # <<>> => IsPcMask(Input.game.board)
             /\ pc = "branch_game_on_hold" => branch_game_on_hold(game) = {})
    /\ [](pc = "branch_game_on_hold" /\ ~game.is_hold_used =>
             [game EXCEPT !.is_hold_used = TRUE] \in branch_game_on_hold(game))
    /\ [][PlaceStep => game.is_hold_used]_vars

(* The search of an input with an active piece and a used hold has come to *)
(* the hold branches and has none to follow.                               *)
C40_NoHoldBranch ==
    /\ HoldUsedInput
    /\ pc = "branch_game_on_hold"
    /\ branch_game_on_hold(game) = {}
    /\ ~IsPcMask(Input.game.board)
    /\ results = <<>>

====
